---- MODULE Spec2Model ----
(***************************************************************************)
(* The CSS selector builder of core-js-101: class Selector                 *)
(* (src/src/selector.js), its subclass SelectorElem and the factory object *)
(* cssSelectorBuilder (src/unnamed/part_000).                              *)
(*                                                                         *)
(* A string is a sequence of one-character strings, so that concatenation  *)
(* (Array.prototype.join, template literals) is sequence concatenation.    *)
(* A builder object is a record of the fields the constructor sets; the    *)
(* heap is a pool of NumBuilders objects, allocated in order by `new`.     *)
(***************************************************************************)
EXTENDS Integers, Sequences, FiniteSets, TLC

\* ------------------------------------------------------------------ bounds
NumBuilders == 3
MaxAdds == 3

Builders == 1..NumBuilders
Values == {<<"a">>, <<"b">>}
Combinators == {<<"+">>, <<" ">>}

OrderViolation == "OrderViolation"
DuplicateFragment == "DuplicateFragment"

VARIABLES
    created,            \* number of objects constructed so far
    selectors,          \* this.selectors of every object
    selectorsTypes,     \* this.selectorsTypes of every object
    isIdExist,          \* this.isIdExist of every object
    isElExist,          \* this.isElExist of every object
    isPseudoElExist,    \* this.isPseudoElExist of every object
    calls,              \* history: the add() calls that returned normally on
                        \* the object since it was constructed or last rendered
    last                \* the last call made and what it returned or threw

vars == <<created, selectors, selectorsTypes, isIdExist, isElExist,
          isPseudoElExist, calls, last>>

\* ------------------------------------------------------------ class Selector
\* The object the constructor builds.
constructor ==
    [selectors |-> <<>>, isIdExist |-> FALSE, isElExist |-> FALSE,
     isPseudoElExist |-> FALSE, selectorsTypes |-> <<>>]

\* selectorsWeight giving the default type the highest weight.
selectorsWeightDefaultHigh(type) ==
    CASE type = "" -> 60
      [] type = "element" -> 1
      [] type = "id" -> 10
      [] type = "class" -> 20
      [] type = "attribute" -> 30
      [] type = "pseudo-class" -> 40
      [] type = "pseudo-element" -> 50

selectorsWeight(type) ==
    CASE type = "" -> 0
      [] type = "element" -> 1
      [] type = "id" -> 10
      [] type = "class" -> 20
      [] type = "attribute" -> 30
      [] type = "pseudo-class" -> 40
      [] type = "pseudo-element" -> 50

\* isRightOrder comparing with the first rank held instead of the last.
isRightOrderFirst(self, type) ==
    IF Len(self.selectorsTypes) = 0
    THEN "true"
    ELSE LET prevVal == self.selectorsTypes[1]
             currVal == selectorsWeight(type)
         IN  IF currVal < prevVal THEN "throw" ELSE "true"

\* isRightOrder rejecting a rank equal to the last one as well.
isRightOrderStrict(self, type) ==
    IF Len(self.selectorsTypes) = 0
    THEN "true"
    ELSE LET prevVal == self.selectorsTypes[Len(self.selectorsTypes)]
             currVal == selectorsWeight(type)
         IN  IF currVal <= prevVal THEN "throw" ELSE "true"

\* "true" when the method returns true, "throw" when it throws.
isRightOrder(self, type) ==
    IF Len(self.selectorsTypes) = 0
    THEN "true"
    ELSE LET prevVal == self.selectorsTypes[Len(self.selectorsTypes)]
             currVal == selectorsWeight(type)
         IN  IF currVal < prevVal THEN "throw" ELSE "true"

\* add that appends without asking isRightOrder.
addUnchecked(self, val, type) ==
    [self |-> [self EXCEPT !.selectors = Append(@, val),
                           !.selectorsTypes = Append(@, selectorsWeight(type))],
     res |-> "ok"]

\* A method's outcome: the object afterwards and "ok" or the error thrown.
add(self, val, type) ==
    IF isRightOrder(self, type) = "throw"
    THEN [self |-> self, res |-> OrderViolation]
    ELSE [self |-> [self EXCEPT !.selectors = Append(@, val),
                                !.selectorsTypes = Append(@, selectorsWeight(type))],
          res |-> "ok"]

\* Array.prototype.join('')
RECURSIVE join(_)
join(strs) ==
    IF strs = <<>> THEN <<>> ELSE Head(strs) \o join(Tail(strs))

\* stringify that forgets to clear isIdExist.
stringifyKeepIdFlag(self) ==
    [self |-> [self EXCEPT !.selectors = <<>>,
                           !.isElExist = FALSE,
                           !.isPseudoElExist = FALSE],
     ret |-> join(self.selectors)]

\* stringify that leaves the fragments in place.
stringifyKeep(self) ==
    [self |-> [self EXCEPT !.isIdExist = FALSE,
                           !.isElExist = FALSE,
                           !.isPseudoElExist = FALSE],
     ret |-> join(self.selectors)]

\* The object afterwards and the string returned.
stringify(self) ==
    [self |-> [self EXCEPT !.selectors = <<>>,
                           !.isIdExist = FALSE,
                           !.isElExist = FALSE,
                           !.isPseudoElExist = FALSE],
     ret |-> join(self.selectors)]

\* -------------------------------------------------------- class SelectorElem
Duplicate(self) == [self |-> self, res |-> DuplicateFragment]

\* element setting its flag before it calls add.
elementFlagFirst(self, value) ==
    IF ~self.isElExist
    THEN LET r == add([self EXCEPT !.isElExist = TRUE], value, "element")
         IN  r
    ELSE Duplicate(self)

element(self, value) ==
    IF ~self.isElExist
    THEN LET r == add(self, value, "element")
         IN  IF r.res = "ok"
             THEN [r EXCEPT !.self.isElExist = TRUE]
             ELSE r
    ELSE Duplicate(self)

\* id calling add before it looks at its flag.
idOrderFirst(self, value) ==
    LET r == add(self, <<"#">> \o value, "id")
    IN  IF r.res # "ok"
        THEN r
        ELSE IF ~self.isIdExist
             THEN [r EXCEPT !.self.isIdExist = TRUE]
             ELSE Duplicate(self)

\* id that never sets its flag.
idNoFlag(self, value) ==
    IF ~self.isIdExist
    THEN add(self, <<"#">> \o value, "id")
    ELSE Duplicate(self)

id(self, value) ==
    IF ~self.isIdExist
    THEN LET r == add(self, <<"#">> \o value, "id")
         IN  IF r.res = "ok"
             THEN [r EXCEPT !.self.isIdExist = TRUE]
             ELSE r
    ELSE Duplicate(self)

class(self, value) == add(self, <<".">> \o value, "class")

\* attr leaving out the closing bracket.
attrNoClose(self, value) == add(self, <<"[">> \o value, "attribute")

attr(self, value) == add(self, <<"[">> \o value \o <<"]">>, "attribute")

pseudoClass(self, value) == add(self, <<":">> \o value, "pseudo-class")

\* pseudoElement that never sets its flag.
pseudoElementNoFlag(self, value) ==
    IF ~self.isPseudoElExist
    THEN add(self, <<":", ":">> \o value, "pseudo-element")
    ELSE Duplicate(self)

pseudoElement(self, value) ==
    IF ~self.isPseudoElExist
    THEN LET r == add(self, <<":", ":">> \o value, "pseudo-element")
         IN  IF r.res = "ok"
             THEN [r EXCEPT !.self.isPseudoElExist = TRUE]
             ELSE r
    ELSE Duplicate(self)

\* ------------------------------------------------------------------ the heap
Obj(b) ==
    [selectors |-> selectors[b], isIdExist |-> isIdExist[b],
     isElExist |-> isElExist[b], isPseudoElExist |-> isPseudoElExist[b],
     selectorsTypes |-> selectorsTypes[b]]

RECURSIVE SumTypes(_)
SumTypes(n) == IF n = 0 THEN 0 ELSE Len(selectorsTypes[n]) + SumTypes(n - 1)

\* Number of successful add() calls so far; caps the model.
TotalAdds == SumTypes(NumBuilders)

\* Store on fields that every object shares.
StoreShared(b, o) ==
    /\ selectors' = [x \in Builders |-> o.selectors]
    /\ selectorsTypes' = [selectorsTypes EXCEPT ![b] = o.selectorsTypes]
    /\ isIdExist' = [isIdExist EXCEPT ![b] = o.isIdExist]
    /\ isElExist' = [isElExist EXCEPT ![b] = o.isElExist]
    /\ isPseudoElExist' = [isPseudoElExist EXCEPT ![b] = o.isPseudoElExist]

\* Write object o back to slot b; every other slot keeps its object.
Store(b, o) ==
    /\ selectors' = [selectors EXCEPT ![b] = o.selectors]
    /\ selectorsTypes' = [selectorsTypes EXCEPT ![b] = o.selectorsTypes]
    /\ isIdExist' = [isIdExist EXCEPT ![b] = o.isIdExist]
    /\ isElExist' = [isElExist EXCEPT ![b] = o.isElExist]
    /\ isPseudoElExist' = [isPseudoElExist EXCEPT ![b] = o.isPseudoElExist]

\* A fluent method returned r on object b; type and value are its arguments.
Returned(b, op, type, value, r) ==
    /\ Store(b, r.self)
    /\ calls' = [calls EXCEPT ![b] =
                    IF r.res = "ok"
                    THEN Append(@, [type |-> type, value |-> value])
                    ELSE @]
    /\ last' = [op |-> op, self |-> b, res |-> r.res, ret |-> <<>>]

Init ==
    /\ created = 0
    /\ selectors = [b \in Builders |-> <<>>]
    /\ selectorsTypes = [b \in Builders |-> <<>>]
    /\ isIdExist = [b \in Builders |-> FALSE]
    /\ isElExist = [b \in Builders |-> FALSE]
    /\ isPseudoElExist = [b \in Builders |-> FALSE]
    /\ calls = [b \in Builders |-> <<>>]
    /\ last = [op |-> "none", self |-> 0, res |-> "ok", ret |-> <<>>]

Live(b) == b \in Builders /\ b <= created

\* ------------------------------------------- fluent calls on a live builder
Element(b, v) ==
    /\ Live(b) /\ TotalAdds < MaxAdds
    /\ Returned(b, "element", "element", v, element(Obj(b), v))
    /\ UNCHANGED created

Id(b, v) ==
    /\ Live(b) /\ TotalAdds < MaxAdds
    /\ Returned(b, "id", "id", v, id(Obj(b), v))
    /\ UNCHANGED created

Class(b, v) ==
    /\ Live(b) /\ TotalAdds < MaxAdds
    /\ Returned(b, "class", "class", v, class(Obj(b), v))
    /\ UNCHANGED created

Attr(b, v) ==
    /\ Live(b) /\ TotalAdds < MaxAdds
    /\ Returned(b, "attr", "attribute", v, attr(Obj(b), v))
    /\ UNCHANGED created

PseudoClass(b, v) ==
    /\ Live(b) /\ TotalAdds < MaxAdds
    /\ Returned(b, "pseudoClass", "pseudo-class", v, pseudoClass(Obj(b), v))
    /\ UNCHANGED created

PseudoElement(b, v) ==
    /\ Live(b) /\ TotalAdds < MaxAdds
    /\ Returned(b, "pseudoElement", "pseudo-element", v, pseudoElement(Obj(b), v))
    /\ UNCHANGED created

Stringify(b) ==
    /\ Live(b)
    /\ LET r == stringify(Obj(b))
       IN  /\ Store(b, r.self)
           /\ last' = [op |-> "stringify", self |-> b, res |-> "ok", ret |-> r.ret]
    /\ calls' = [calls EXCEPT ![b] = <<>>]
    /\ UNCHANGED created

\* ------------------------------------------------------- cssSelectorBuilder
CanCreate == created < NumBuilders /\ TotalAdds < MaxAdds

\* new SelectorElem().<method>(value)
Created(op, type, value, r) ==
    /\ created' = created + 1
    /\ Returned(created + 1, op, type, value, r)

NewElement(v) ==
    /\ CanCreate
    /\ Created("element", "element", v, element(constructor, v))

NewId(v) ==
    /\ CanCreate
    /\ Created("id", "id", v, id(constructor, v))

NewClass(v) ==
    /\ CanCreate
    /\ Created("class", "class", v, class(constructor, v))

NewAttr(v) ==
    /\ CanCreate
    /\ Created("attr", "attribute", v, attr(constructor, v))

NewPseudoClass(v) ==
    /\ CanCreate
    /\ Created("pseudoClass", "pseudo-class", v, pseudoClass(constructor, v))

NewPseudoElement(v) ==
    /\ CanCreate
    /\ Created("pseudoElement", "pseudo-element", v, pseudoElement(constructor, v))

\* combine with the two rendered strings in the other order.
combineSwapped(h, selector1, combinator, selector2) ==
    LET r1 == stringify(h[selector1])
        h1 == [h EXCEPT ![selector1] = r1.self]
        r2 == stringify(h1[selector2])
        h2 == [h1 EXCEPT ![selector2] = r2.self]
        str == r2.ret \o <<" ">> \o combinator \o <<" ">> \o r1.ret
    IN  [heap |-> h2, str |-> str, new |-> add(constructor, str, "")]

\* combine reading its second operand without rendering it.
combineKeepSecond(h, selector1, combinator, selector2) ==
    LET r1 == stringify(h[selector1])
        h1 == [h EXCEPT ![selector1] = r1.self]
        str == r1.ret \o <<" ">> \o combinator \o <<" ">> \o join(h1[selector2].selectors)
    IN  [heap |-> h1, str |-> str, new |-> add(constructor, str, "")]

\* combine reading both operands before it renders either.
combineSnapshot(h, selector1, combinator, selector2) ==
    LET r1 == stringify(h[selector1])
        r2 == stringify(h[selector2])
        h2 == [h EXCEPT ![selector1] = r1.self, ![selector2] = r2.self]
        str == r1.ret \o <<" ">> \o combinator \o <<" ">> \o r2.ret
    IN  [heap |-> h2, str |-> str, new |-> add(constructor, str, "")]

\* combine joining the three strings without the spaces.
combineNoSpace(h, selector1, combinator, selector2) ==
    LET r1 == stringify(h[selector1])
        h1 == [h EXCEPT ![selector1] = r1.self]
        r2 == stringify(h1[selector2])
        h2 == [h1 EXCEPT ![selector2] = r2.self]
        str == r1.ret \o combinator \o r2.ret
    IN  [heap |-> h2, str |-> str, new |-> add(constructor, str, "")]

\* The three steps of combine on a heap h of objects: selector1.stringify(),
\* then selector2.stringify() (on what the first left), then the new object.
combine(h, selector1, combinator, selector2) ==
    LET r1 == stringify(h[selector1])
        h1 == [h EXCEPT ![selector1] = r1.self]
        r2 == stringify(h1[selector2])
        h2 == [h1 EXCEPT ![selector2] = r2.self]
        str1 == r1.ret
        str2 == r2.ret
        str == str1 \o <<" ">> \o combinator \o <<" ">> \o str2
    IN  [heap |-> h2, str |-> str, new |-> add(constructor, str, "")]

Combine(s1, combinator, s2) ==
    /\ Live(s1) /\ Live(s2) /\ CanCreate
    /\ LET n == created + 1
           c == combine([b \in Builders |-> Obj(b)], s1, combinator, s2)
           h == [c.heap EXCEPT ![n] = c.new.self]
       IN  /\ created' = n
           /\ selectors' = [b \in Builders |-> h[b].selectors]
           /\ selectorsTypes' = [b \in Builders |-> h[b].selectorsTypes]
           /\ isIdExist' = [b \in Builders |-> h[b].isIdExist]
           /\ isElExist' = [b \in Builders |-> h[b].isElExist]
           /\ isPseudoElExist' = [b \in Builders |-> h[b].isPseudoElExist]
           /\ calls' = [b \in Builders |->
                          IF b = n
                          THEN IF c.new.res = "ok"
                               THEN <<[type |-> "", value |-> c.str]>>
                               ELSE <<>>
                          ELSE IF b \in {s1, s2} THEN <<>> ELSE calls[b]]
           /\ last' = [op |-> "combine", self |-> n, res |-> c.new.res, ret |-> <<>>]

Next ==
    \/ \E b \in Builders, v \in Values : Element(b, v)
    \/ \E b \in Builders, v \in Values : Id(b, v)
    \/ \E b \in Builders, v \in Values : Class(b, v)
    \/ \E b \in Builders, v \in Values : Attr(b, v)
    \/ \E b \in Builders, v \in Values : PseudoClass(b, v)
    \/ \E b \in Builders, v \in Values : PseudoElement(b, v)
    \/ \E b \in Builders : Stringify(b)
    \/ \E v \in Values : NewElement(v)
    \/ \E v \in Values : NewId(v)
    \/ \E v \in Values : NewClass(v)
    \/ \E v \in Values : NewAttr(v)
    \/ \E v \in Values : NewPseudoClass(v)
    \/ \E v \in Values : NewPseudoElement(v)
    \/ \E s1 \in Builders, s2 \in Builders, c \in Combinators : Combine(s1, c, s2)

Spec == Init /\ [][Next]_vars

\* ------------------------------------------------- vocabulary of the claims
Kinds == {"element", "id", "class", "attribute", "pseudo-class", "pseudo-element"}
Singletons == {"element", "id", "pseudo-element"}
Errors == {OrderViolation, DuplicateFragment}

\* The rank the specification gives each kind; the kind of combine is 0.
Rank(type) ==
    CASE type = "element" -> 1
      [] type = "id" -> 10
      [] type = "class" -> 20
      [] type = "attribute" -> 30
      [] type = "pseudo-class" -> 40
      [] type = "pseudo-element" -> 50
      [] OTHER -> 0

\* The formatted fragment the specification's table gives for a call.
Formatted(type, value) ==
    CASE type = "element" -> value
      [] type = "id" -> <<"#">> \o value
      [] type = "class" -> <<".">> \o value
      [] type = "attribute" -> <<"[">> \o value \o <<"]">>
      [] type = "pseudo-class" -> <<":">> \o value
      [] type = "pseudo-element" -> <<":", ":">> \o value
      [] OTHER -> value

\* The fluent call of kind `type` on builder b, as a step.
Method(type, b, v) ==
    CASE type = "element" -> Element(b, v)
      [] type = "id" -> Id(b, v)
      [] type = "class" -> Class(b, v)
      [] type = "attribute" -> Attr(b, v)
      [] type = "pseudo-class" -> PseudoClass(b, v)
      [] type = "pseudo-element" -> PseudoElement(b, v)

\* The kinds of the fragments of b's current, not-yet-rendered selector.
HasKind(b, type) == \E i \in DOMAIN calls[b] : calls[b][i].type = type
LastRank(b) == Rank(calls[b][Len(calls[b])].type)
CountKind(b, type) == Cardinality({i \in DOMAIN calls[b] : calls[b][i].type = type})

\* Every field of every object is as it was.
HeapUnchanged ==
    UNCHANGED <<selectors, selectorsTypes, isIdExist, isElExist, isPseudoElExist>>

\* ------------------------------------------------------------------- claims

\* C1 as stated: a fluent call whose kind ranks strictly below the last
\* fragment of the builder's current selector fails with OrderViolation and
\* appends nothing.
C1_AsStated ==
    [][\A b \in Builders, t \in Kinds, v \in Values :
          (Method(t, b, v) /\ calls[b] # <<>> /\ Rank(t) < LastRank(b))
              => (last'.res = OrderViolation /\ HeapUnchanged)]_vars

\* C1 amended: such a call always fails and appends nothing; the error is
\* DuplicateFragment when the kind is a singleton kind the current selector
\* already holds, and OrderViolation in every other case.
C1_LowerRankFails ==
    [][\A b \in Builders, t \in Kinds, v \in Values :
          (Method(t, b, v) /\ calls[b] # <<>> /\ Rank(t) < LastRank(b))
              => /\ HeapUnchanged
                 /\ last'.res = IF t \in Singletons /\ HasKind(b, t)
                                THEN DuplicateFragment
                                ELSE OrderViolation]_vars

\* A call of a lower-ranked kind has just failed with OrderViolation on a
\* builder whose current selector ends in a higher-ranked fragment.
C1_Witness ==
    /\ last.res = OrderViolation
    /\ last.op = "id"
    /\ calls[last.self] # <<>>
    /\ Rank("id") < LastRank(last.self)

\* C2: a singleton method called on a builder on which the same method has
\* succeeded since the builder was created or last rendered fails with
\* DuplicateFragment.
C2_SecondSingletonFails ==
    [][\A b \in Builders, t \in Singletons, v \in Values :
          (Method(t, b, v) /\ HasKind(b, t))
              => last'.res = DuplicateFragment]_vars

\* pseudoElement has just failed with DuplicateFragment on a builder whose
\* current selector holds a pseudo-element.
C2_Witness ==
    /\ last.res = DuplicateFragment
    /\ last.op = "pseudoElement"
    /\ HasKind(last.self, "pseudo-element")

\* C3: a fluent call that fails leaves the fragments, the ranks and the three
\* flags of the builder (and of every other builder) as they were.
C3_FailureChangesNothing ==
    [][\A b \in Builders, t \in Kinds, v \in Values :
          (Method(t, b, v) /\ last'.res \in Errors)
              => (HeapUnchanged /\ UNCHANGED <<created, calls>>)]_vars

\* element has just failed with OrderViolation and its flag is not set.
C3_Witness ==
    /\ last.op = "element"
    /\ last.res = OrderViolation
    /\ ~isElExist[last.self]
    /\ selectors[last.self] # <<>>

NonDecreasing(seq) ==
    \A i \in DOMAIN seq : \A j \in DOMAIN seq : i <= j => seq[i] <= seq[j]

\* C4: the rank sequence of every builder is non-decreasing in every
\* reachable state.
C4_RanksNonDecreasing ==
    \A b \in Builders : NonDecreasing(selectorsTypes[b])

\* A builder that was rendered and appended to again holds ranks that rise.
C4_Witness ==
    \E b \in Builders :
        /\ Len(selectorsTypes[b]) >= 3
        /\ Len(selectors[b]) = 1
        /\ selectorsTypes[b][1] < selectorsTypes[b][3]

\* C5: the fragment sequence of every builder holds at most one element
\* fragment, at most one id fragment and at most one pseudo-element fragment.
C5_SingletonsAtMostOnce ==
    \A b \in Builders :
        /\ Len(selectors[b]) = Len(calls[b])
        /\ \A t \in Singletons : CountKind(b, t) <= 1

\* A builder holds an element, an id and a pseudo-element fragment.
C5_Witness ==
    \E b \in Builders :
        /\ Len(selectors[b]) = 3
        /\ \A t \in Singletons : CountKind(b, t) = 1

\* The concatenation, in call order and with no separator, of the formatted
\* fragments of a sequence of accepted calls.
RECURSIVE Concatenation(_)
Concatenation(cs) ==
    IF cs = <<>>
    THEN <<>>
    ELSE Formatted(Head(cs).type, Head(cs).value) \o Concatenation(Tail(cs))

\* A builder that has never been rendered: every rank it holds belongs to a
\* fragment it holds.
Fresh(b) == Len(selectorsTypes[b]) = Len(calls[b])

\* C6: on a builder that has not been rendered, every fluent call of
\* non-decreasing rank that repeats no singleton kind is accepted, and
\* stringify() returns the concatenation of the formatted fragments of the
\* accepted calls, in call order.
C6_StringifyConcatenates ==
    [][/\ \A b \in Builders, t \in Kinds, v \in Values :
            (/\ Method(t, b, v) /\ Fresh(b) /\ calls[b] # <<>>
             /\ Rank(t) >= LastRank(b)
             /\ ~(t \in Singletons /\ HasKind(b, t)))
                => (last'.res = "ok" /\ selectors'[b] = Append(selectors[b], Formatted(t, v)))
       /\ \A b \in Builders :
            (Stringify(b) /\ Fresh(b))
                => last'.ret = Concatenation(calls[b])]_vars

\* stringify() has just returned '#a.b[a]'-like text of three fragments.
C6_Witness ==
    /\ last.op = "stringify"
    /\ last.ret = <<"#", "a", ".", "b", "[", "a", "]">>

\* C7 as stated: after stringify() returns, the builder is in the state the
\* constructor builds: no fragments, no ranks, the three flags false.
C7_AsStated ==
    last.op = "stringify" => Obj(last.self) = constructor

\* The object a fresh builder becomes when the calls cs are made on it.
RECURSIVE Replay(_)
Replay(cs) ==
    IF cs = <<>>
    THEN constructor
    ELSE LET c == cs[Len(cs)]
             o == Replay(SubSeq(cs, 1, Len(cs) - 1))
         IN  CASE c.type = "element" -> element(o, c.value).self
               [] c.type = "id" -> id(o, c.value).self
               [] c.type = "class" -> class(o, c.value).self
               [] c.type = "attribute" -> attr(o, c.value).self
               [] c.type = "pseudo-class" -> pseudoClass(o, c.value).self
               [] c.type = "pseudo-element" -> pseudoElement(o, c.value).self
               [] OTHER -> add(o, c.value, "").self

\* What the fluent call of kind type returns or throws on object o.
Outcome(type, o, v) ==
    CASE type = "element" -> element(o, v).res
      [] type = "id" -> id(o, v).res
      [] type = "class" -> class(o, v).res
      [] type = "attribute" -> attr(o, v).res
      [] type = "pseudo-class" -> pseudoClass(o, v).res
      [] type = "pseudo-element" -> pseudoElement(o, v).res

\* C8 as stated: a rendered builder behaves as a new one: every fluent call
\* has the outcome it has on a fresh builder on which the calls accepted since
\* the last stringify() were made, and stringify() returns what it returns
\* there.
C8_AsStated ==
    [][/\ \A b \in Builders, t \in Kinds, v \in Values :
            Method(t, b, v) => last'.res = Outcome(t, Replay(calls[b]), v)
       /\ \A b \in Builders :
            Stringify(b) => last'.ret = stringify(Replay(calls[b])).ret]_vars

\* C9: stringify() on a builder that was rendered and has had nothing
\* appended since returns the empty string.
C9_SecondStringifyEmpty ==
    [][\A b \in Builders :
          (Stringify(b) /\ calls[b] = <<>>) => last'.ret = <<>>]_vars

\* stringify() has just returned the empty string.
C9_Witness ==
    /\ last.op = "stringify"
    /\ last.ret = <<>>
    /\ selectorsTypes[last.self] # <<>>

\* C10: combine(a, tok, b) with distinct operands allocates a new builder
\* whose stringify() yields sA, a space, tok, a space, sB, where sA and sB
\* are what a.stringify() and b.stringify() return when combine is called.
C10_CombineComposes ==
    [][\A s1 \in Builders, s2 \in Builders, tok \in Combinators :
          (Combine(s1, tok, s2) /\ s1 # s2)
              => LET n == created'
                     sA == stringify(Obj(s1)).ret
                     sB == stringify(Obj(s2)).ret
                 IN  /\ n \notin {s1, s2} /\ ~Live(n)
                     /\ last'.res = "ok"
                     /\ stringify([selectors |-> selectors'[n],
                                   isIdExist |-> isIdExist'[n],
                                   isElExist |-> isElExist'[n],
                                   isPseudoElExist |-> isPseudoElExist'[n],
                                   selectorsTypes |-> selectorsTypes'[n]]).ret
                            = sA \o <<" ">> \o tok \o <<" ">> \o sB]_vars

\* combine of '#a' and '.b' with the token ' ' has just returned a builder
\* holding '#a' + three spaces + '.b'.
C10_Witness ==
    /\ last.op = "combine"
    /\ selectors[last.self] = << <<"#", "a", " ", " ", " ", ".", "b">> >>

\* Builder b was returned by combine and has had nothing appended since.
Combined(b) == Len(calls[b]) = 1 /\ calls[b][1].type = ""

\* The object in slot b after the step.
ObjAfter(b) ==
    [selectors |-> selectors'[b], isIdExist |-> isIdExist'[b],
     isElExist |-> isElExist'[b], isPseudoElExist |-> isPseudoElExist'[b],
     selectorsTypes |-> selectorsTypes'[b]]

C12_BuildersIndependent ==
    [][/\ \A b \in Builders, t \in Kinds, v \in Values :
            Method(t, b, v) => \A o \in Builders \ {b} : Live(o) => ObjAfter(o) = Obj(o)
       /\ \A b \in Builders :
            Stringify(b) => \A o \in Builders \ {b} : Live(o) => ObjAfter(o) = Obj(o)
       /\ \A v \in Values :
            (\/ NewElement(v) \/ NewId(v) \/ NewClass(v)
             \/ NewAttr(v) \/ NewPseudoClass(v) \/ NewPseudoElement(v))
                => /\ ~Live(created')
                   /\ \A o \in Builders \ {created'} : Live(o) => ObjAfter(o) = Obj(o)
       /\ \A s1 \in Builders, s2 \in Builders, tok \in Combinators :
            Combine(s1, tok, s2)
                => /\ ~Live(created')
                   /\ \A o \in Builders \ {s1, s2, created'} :
                         Live(o) => ObjAfter(o) = Obj(o)]_vars

\* A call has just been made on one builder while the two others hold
\* fragments of their own.
C12_Witness ==
    /\ created = 3
    /\ last.op \in {"class", "stringify"}
    /\ \A o \in Builders \ {last.self} : selectors[o] # <<>> /\ ~Combined(o)

\* C13: right after combine(a, tok, b) returns, a.stringify() and
\* b.stringify() each return the empty string and the three flags of a and
\* of b are false.
C13_CombineResetsOperands ==
    [][\A s1 \in Builders, s2 \in Builders, tok \in Combinators :
          Combine(s1, tok, s2)
              => \A s \in {s1, s2} :
                    /\ stringify(ObjAfter(s)).ret = <<>>
                    /\ ~isElExist'[s] /\ ~isIdExist'[s] /\ ~isPseudoElExist'[s]]_vars

\* combine of 'a' and '#a' has just returned, and both operands, which had
\* their flags set, are empty with their flags false.
C13_Witness ==
    /\ last.op = "combine"
    /\ last.self = 3
    /\ selectors[3] = << <<"a", " ", "+", " ", "#", "a">> >>
    /\ \A s \in {1, 2} :
          /\ selectors[s] = <<>>
          /\ ~isElExist[s] /\ ~isIdExist[s] /\ ~isPseudoElExist[s]

\* The flag of singleton kind type on builder b.
Flag(b, type) ==
    CASE type = "element" -> isElExist[b]
      [] type = "id" -> isIdExist[b]
      [] type = "pseudo-element" -> isPseudoElExist[b]

\* C14: a singleton method called while its flag is set and its rank is
\* below the last appended rank fails with DuplicateFragment, not
\* OrderViolation, and changes nothing.
C14_DuplicateBeforeOrder ==
    [][\A b \in Builders, t \in Singletons, v \in Values :
          (/\ Method(t, b, v) /\ Flag(b, t)
           /\ selectorsTypes[b] # <<>>
           /\ Rank(t) < selectorsTypes[b][Len(selectorsTypes[b])])
              => (last'.res = DuplicateFragment /\ HeapUnchanged)]_vars

\* id('a').class('b').id(..) has just failed with DuplicateFragment.
C14_Witness ==
    /\ last.op = "id"
    /\ last.res = DuplicateFragment
    /\ selectors[last.self] = << <<"#", "a">>, <<".", "b">> >>

\* C15: class, attr or pseudoClass called with a rank not below the rank of
\* the last fragment of the current selector succeeds and appends exactly
\* its formatted fragment and its rank; so does the factory of each.
C15_NonSingletonAppends ==
    [][/\ \A b \in Builders, t \in Kinds \ Singletons, v \in Values :
            (Method(t, b, v) /\ calls[b] # <<>> /\ Rank(t) >= LastRank(b))
                => /\ last'.res = "ok"
                   /\ selectors'[b] = Append(selectors[b], Formatted(t, v))
                   /\ selectorsTypes'[b] = Append(selectorsTypes[b], Rank(t))
       /\ \A v \in Values :
            (NewClass(v) \/ NewAttr(v) \/ NewPseudoClass(v))
                => /\ last'.res = "ok"
                   /\ Len(selectors'[created']) = 1
                   /\ Len(selectorsTypes'[created']) = 1]_vars

\* class has just been appended for the third time in a row.
C15_Witness ==
    /\ last.op = "class"
    /\ last.res = "ok"
    /\ selectorsTypes[last.self] = <<20, 20, 20>>
    /\ Len(selectors[last.self]) = 3

\* C16 as stated: in every reachable state the rank sequence of a builder is
\* as long as its fragment sequence and its i-th rank is the rank of the
\* kind of the i-th fragment.
C16_AsStated ==
    \A b \in Builders :
        /\ Len(selectorsTypes[b]) = Len(selectors[b])
        /\ Len(calls[b]) = Len(selectors[b])
        /\ \A i \in DOMAIN selectors[b] :
              selectorsTypes[b][i] = Rank(calls[b][i].type)

\* C17: each singleton flag of a builder is true exactly when its current
\* fragment sequence holds a fragment of that kind.
C17_FlagsMatchFragments ==
    \A b \in Builders :
        /\ Len(calls[b]) = Len(selectors[b])
        /\ \A t \in Singletons : Flag(b, t) <=> HasKind(b, t)

\* One builder holds an id fragment with its flag set while another, rendered
\* after an id was appended, has the flag cleared.
C17_Witness ==
    \E b \in Builders, o \in Builders :
        /\ isIdExist[b] /\ ~isElExist[b] /\ Len(selectors[b]) = 2
        /\ selectorsTypes[o] = <<10>> /\ selectors[o] = <<>> /\ ~isIdExist[o]

\* C18: the builder combine returns holds the composed string as its one
\* fragment, with rank 0 and the three flags false; any first fluent call on
\* it, of whatever kind, succeeds and appends its fragment right after the
\* composed string.
C18_CombinedAcceptsAnyKind ==
    [][/\ \A s1 \in Builders, s2 \in Builders, tok \in Combinators :
            Combine(s1, tok, s2)
                => LET n == created'
                   IN  /\ Len(selectors'[n]) = 1
                       /\ selectorsTypes'[n] = <<0>>
                       /\ ~isElExist'[n] /\ ~isIdExist'[n] /\ ~isPseudoElExist'[n]
       /\ \A b \in Builders, t \in Kinds, v \in Values :
            (Method(t, b, v) /\ Combined(b))
                => /\ last'.res = "ok"
                   /\ selectors'[b] = <<calls[b][1].value, Formatted(t, v)>>
                   /\ stringify(ObjAfter(b)).ret
                          = calls[b][1].value \o Formatted(t, v)]_vars

\* combine(x, '+', x).element('b').stringify() with x = '#a' has just
\* returned '#a + b'.
C18_Witness ==
    /\ last.op = "stringify"
    /\ last.ret = <<"#", "a", " ", "+", " ", "b">>
    /\ selectorsTypes[last.self] = <<0, 1>>

\* C19: combine(x, tok, x) renders x for the first operand and gets the
\* empty string for the second: the result renders as sX, a space, tok, a
\* space, and nothing more.
C19_SameOperandTwice ==
    [][\A x \in Builders, tok \in Combinators :
          Combine(x, tok, x)
              => LET sX == stringify(Obj(x)).ret
                 IN  /\ last'.res = "ok"
                     /\ stringify(ObjAfter(created')).ret
                            = sX \o <<" ">> \o tok \o <<" ">>]_vars

\* combine(x, '+', x) with x = '#a.b' has just returned a builder holding
\* '#a.b + '.
C19_Witness ==
    /\ last.op = "combine"
    /\ created = 2
    /\ selectors[2] = << <<"#", "a", ".", "b", " ", "+", " ">> >>
====
